---- MODULE Spec2Model ----
(***************************************************************************)
(* hydra-shields-io-endpoint (src/src/main.rs): the badge endpoint that    *)
(* asks a Hydra CI server for its projects, the evaluation history of each *)
(* selected jobset and the builds of each evaluation, through three moka   *)
(* caches used with try_get_with (single flight per key).                  *)
(*                                                                         *)
(* Strings are sequences of one-character strings, so that glob matching   *)
(* and Jobset::to_string are computed and not assumed.                     *)
(***************************************************************************)
EXTENDS Integers, Sequences, FiniteSets, TLC

VARIABLES remote, cache, waiters, fut, req, res, failures, allowed

vars == <<remote, cache, waiters, fut, req, res, failures, allowed>>

----------------------------------------------------------------------------
(* Bounds of the model. *)

\* number of request slots (HTTP requests handled during a run)
NReq == 2
\* transport failures the remote may produce during a run
MaxFail == 1
\* longest evaluation history drawn for the resolver specification
MaxEvals == 2
\* most builds in one evaluation drawn for the resolver specification
MaxBuilds == 2

Reqs == 1..NReq

----------------------------------------------------------------------------
(* Strings and globs. *)

None == "none"

\* Jobset::to_string: format!("{}:{}", project, name)
to_string(jobset) == jobset.project \o <<":">> \o jobset.name

\* GlobMatcher::is_match for the glob syntax used here: a literal character,
\* "?" (any one character) and "*" (any run of characters, empty included).
RECURSIVE is_match(_, _)
is_match(pat, text) ==
    IF pat = <<>> THEN text = <<>>
    ELSE IF Head(pat) = "*"
         THEN is_match(Tail(pat), text)
              \/ (text # <<>> /\ is_match(pat, Tail(text)))
         ELSE /\ text # <<>>
              /\ (Head(pat) = "?" \/ Head(pat) = Head(text))
              /\ is_match(Tail(pat), Tail(text))

\* format!("{}:{}", params.jobsets, params.jobs)
Label(jobsets, jobs) == jobsets \o <<":">> \o jobs

----------------------------------------------------------------------------
(* The records decoded from the remote's JSON. *)

Project(name, jobsets) == [name |-> name, jobsets |-> jobsets]
Jobset(project, name) == [project |-> project, name |-> name]
Build(job, finished, buildstatus) ==
    [job |-> job, finished |-> finished, buildstatus |-> buildstatus]

\* projects.flat_map(|project| project.jobsets.map(|jobset| Jobset {..}))
RECURSIVE FlatJobsets(_)
FlatJobsets(projects) ==
    IF projects = <<>> THEN <<>>
    ELSE [i \in 1..Len(Head(projects).jobsets) |->
             Jobset(Head(projects).name, Head(projects).jobsets[i])]
         \o FlatJobsets(Tail(projects))

\* JobsetSelected without the filter: every jobset of every project
JobsetSelectedAll(jobset_matcher, x) == TRUE

\* .filter(|x| jobset_matcher.is_match(x.to_string()))
JobsetSelected(jobset_matcher, x) == is_match(jobset_matcher, to_string(x))

SelectedJobsets(projects, jobset_matcher) ==
    SelectSeq(FlatJobsets(projects), LAMBDA x : JobsetSelected(jobset_matcher, x))

\* statuses.filter(|build| job_matcher.is_match(build.job))
JobMatches(job_matcher, build) == is_match(job_matcher, build.job)

\* Filtered that keeps every build, whatever its job
FilteredAll(job_matcher, statuses) == statuses

Filtered(job_matcher, statuses) ==
    SelectSeq(statuses, LAMBDA b : JobMatches(job_matcher, b))

\* filtered.any(|x| x.finished != 1)
Queued(filtered) == \E i \in 1..Len(filtered) : filtered[i].finished # 1

\* filtered.any(|x| x.buildstatus != 0)
Failure(filtered) == \E i \in 1..Len(filtered) : filtered[i].buildstatus # 0

\* EmptyFlags of a port that skips an evaluation without the job
EmptyFlagsSkip == <<TRUE, TRUE>>

\* if filtered.is_empty() { return Ok((false, true)); }
EmptyFlags == <<FALSE, TRUE>>

\* EvaluationFlags with the flags taken over every build of the evaluation
EvaluationFlagsUnfiltered(job_matcher, statuses) ==
    LET filtered == Filtered(job_matcher, statuses)
    IN  IF filtered = <<>> THEN EmptyFlags
        ELSE <<Queued(statuses), Failure(statuses)>>

\* check_jobset_evaluation once every build has loaded: (queued, failure)
EvaluationFlags(job_matcher, statuses) ==
    LET filtered == Filtered(job_matcher, statuses)
    IN  IF filtered = <<>> THEN EmptyFlags
        ELSE <<Queued(filtered), Failure(filtered)>>

----------------------------------------------------------------------------
(* The remote CI server. *)

URLs == {"u1", "u2"}

jP == <<"p">>
jT == <<"t">>
jS == <<"s">>
jobB == <<"b">>
jobD == <<"d">>

\* GET {base}: u1 has project p with jobsets t and s, u2 has project p with
\* jobset t only.
RemoteProjects ==
    [u \in URLs |-> IF u = "u1" THEN <<Project(jP, <<jT, jS>>)>>
                    ELSE <<Project(jP, <<jT>>)>>]

\* GET {base}jobset/{project}/{jobset}/evals: index 1 is the first evaluation
\* of the list. u1 p:t has a queued first evaluation and a settled second
\* one; u1 p:s asks for build 1 twice; u2 reuses the ids of u1.
RemoteEvals ==
    (<<"u1", Jobset(jP, jT)>> :> << <<3>>, <<4>> >>)
    @@ (<<"u1", Jobset(jP, jS)>> :> << <<1, 1>> >>)
    @@ (<<"u2", Jobset(jP, jT)>> :> << <<1>> >>)

\* GET {base}build/{id}
RemoteBuilds ==
    (<<"u1", 1>> :> Build(jobB, 1, 0))
    @@ (<<"u1", 3>> :> Build(jobB, 0, 0))
    @@ (<<"u1", 4>> :> Build(jobD, 1, 1))
    @@ (<<"u2", 1>> :> Build(jobB, 1, 1))

\* the query parameters a request may carry: hydra_base_url, jobsets, jobs
Params(url, jobsets, jobs) == [url |-> url, jobsets |-> jobsets, jobs |-> jobs]

RequestQueries ==
    { Params("u1", <<"p", ":", "*">>, <<"b">>),
      Params("u1", <<"p", ":", "s">>, <<"*">>),
      Params("u1", <<"q", "*">>, <<"b">>) }

----------------------------------------------------------------------------
(* Caches, futures, requests. *)

Kinds == {"projects_cache", "jobset_eval_list_cache", "build_cache"}

\* A future is named by the request that owns it, the cache it asks, the
\* jobset (index in the selected list), the evaluation (index in the
\* history) and the build (index in the evaluation) it stands for.
FutId(r, kind, j, e, i) == <<r, kind, j, e, i>>
NoFut == <<0, "-", 0, 0, 0>>
ProjectsFut(r) == FutId(r, "projects_cache", 0, 0, 0)
EvalListFut(r, j) == FutId(r, "jobset_eval_list_cache", j, 0, 0)
BuildFut(r, j, e, i) == FutId(r, "build_cache", j, e, i)

Owner(f) == f[1]
KindOf(f) == f[2]

\* Option: <<>> is no value, <<v>> is the value v
Some(v) == <<v>>
Nothing == <<>>

\* a try_get_with future that has not been polled yet
NewFuture(key) ==
    [key |-> key, st |-> "new", lead |-> NoFut, out |-> "-",
     issued |-> FALSE, hit |-> FALSE, val |-> Nothing]

\* what one GET answers now
Upstream(kind, key) ==
    CASE kind = "projects_cache" -> remote.projects[key]
      [] kind = "jobset_eval_list_cache" -> remote.evals[key]
      [] kind = "build_cache" -> remote.builds[key]

\* Resident of a cache keyed without the base URL: by the build id, by the
\* jobset, and one entry for the projects
ResidentAnyUrl(kind, key) ==
    IF kind = "projects_cache" THEN cache[kind]
    ELSE { e \in cache[kind] : e.key[2] = key[2] }

\* cache.get(key)
Resident(kind, key) == { e \in cache[kind] : e.key = key }

\* Lookup of a cache whose keys collide: the value of some entry
LookupAny(kind, key) == (CHOOSE e \in cache[kind] : TRUE).value

Lookup(kind, key) == (CHOOSE e \in Resident(kind, key) : TRUE).value

\* cache.insert(key, value): the entry replaces an older one of the key
Insert(kind, key, value) ==
    [cache EXCEPT ![kind] =
        { e \in @ : e.key # key } \cup { [key |-> key, value |-> value] }]

\* Cache::new(max_capacity): the most entries each cache keeps
ProjectsCapacity == 100
EvalListCapacity == 100
BuildCapacity == 1000

Capacity(kind) ==
    CASE kind = "projects_cache" -> ProjectsCapacity
      [] kind = "jobset_eval_list_cache" -> EvalListCapacity
      [] kind = "build_cache" -> BuildCapacity

\* the in-flight registry of a cache: key -> the future computing it
Waiting(kind, key) == { w \in waiters[kind] : w.key = key }

NoResponse == [status |-> 0, label |-> <<>>, message |-> <<>>, is_error |-> FALSE]

\* EndpointError::into_response (FailedReqwestArc)
ErrorResponse ==
    [status |-> 500, label |-> <<"Request Error">>,
     message |-> <<"reqwest::Error">>, is_error |-> TRUE]

\* the verdict returned by endpoint
PassingMessage == <<"passing">>
FailingMessage == <<"one or more jobs failing">>

VerdictResponse(jobsets, jobs, all_passing) ==
    [status |-> 200, label |-> Label(jobsets, jobs),
     message |-> IF all_passing THEN PassingMessage ELSE FailingMessage,
     is_error |-> ~all_passing]

IdleRequest ==
    [pc |-> "idle", url |-> "-", jobsets |-> <<>>, jobs |-> <<>>,
     projects |-> <<>>, sel |-> <<>>, lists |-> <<>>, resp |-> NoResponse]

Settled(f) == fut[f].st \in {"ok", "err"}

\* every future made has been polled once
AllPolled == \A f \in DOMAIN fut : fut[f].st # "new"

\* The awaited join of request r is complete: every future it awaits has
\* resolved, and the handler runs on in the poll that resolved the last one.
JoinComplete(r) ==
    CASE req[r].pc = "projects" -> Settled(ProjectsFut(r))
      [] req[r].pc = "evals" ->
            \A j \in 1..Len(req[r].sel) : Settled(EvalListFut(r, j))
      [] req[r].pc = "resolve" ->
            \/ \E j \in 1..Len(req[r].lists) :
                  /\ res[<<r, j>>].st = "run"
                  /\ \A i \in 1..Len(req[r].lists[j][res[<<r, j>>].ei]) :
                        Settled(BuildFut(r, j, res[<<r, j>>].ei, i))
            \/ \A j \in 1..Len(req[r].lists) : res[<<r, j>>].st \in {"ok", "err"}
      [] OTHER -> FALSE

\* No handler is in the middle of a poll of its task: every future made has
\* been polled and no awaited join is complete.
Quiet ==
    /\ \A r \in Reqs : ~JoinComplete(r)
    /\ AllPolled

----------------------------------------------------------------------------
(* moka's Cache::try_get_with(key, init), one future per call. *)

\* join_all polls its futures in order the first time it is polled: a
\* future is first polled after the siblings before it.
PolledBefore(f) ==
    CASE KindOf(f) = "build_cache" ->
            \A i \in 1..(f[5] - 1) : fut[BuildFut(f[1], f[3], f[4], i)].st # "new"
      [] KindOf(f) = "jobset_eval_list_cache" ->
            \A j \in 1..(f[3] - 1) : fut[EvalListFut(f[1], j)].st # "new"
      [] OTHER -> TRUE

\* PollOutcome without single flight: a second caller starts its own fetch
PollOutcomeNoJoin(kind, key) ==
    IF Resident(kind, key) # {} THEN "hit" ELSE "lead"

\* PollOutcome that never looks in the cache
PollOutcomeNoHit(kind, key) ==
    IF Waiting(kind, key) # {} THEN "join" ELSE "lead"

\* try_get_with's three ways: the key is resident ("hit"), another caller is
\* computing it ("join"), or this caller computes it ("lead").
PollOutcome(kind, key) ==
    IF Resident(kind, key) # {} THEN "hit"
    ELSE IF Waiting(kind, key) # {} THEN "join"
    ELSE "lead"

\* the first poll of a try_get_with future (and its retry after the caller
\* computing the key was dropped)
Poll(f) ==
    /\ f \in DOMAIN fut
    /\ fut[f].st \in {"new", "retry"}
    /\ fut[f].st = "new" => PolledBefore(f)
    /\ LET kind == KindOf(f)
           key == fut[f].key
           outcome == PollOutcome(kind, key)
       IN  CASE outcome = "hit" ->
                  /\ fut' = [fut EXCEPT ![f].st = "ok", ![f].hit = TRUE,
                                        ![f].val = Some(Lookup(kind, key))]
                  /\ UNCHANGED waiters
             [] outcome = "join" ->
                  /\ fut' = [fut EXCEPT ![f].st = "wait",
                                ![f].lead = (CHOOSE w \in Waiting(kind, key) : TRUE).lead]
                  /\ UNCHANGED waiters
             [] OTHER ->
                  /\ fut' = [fut EXCEPT ![f].st = "lead", ![f].lead = f,
                                        ![f].out = "computing", ![f].issued = TRUE]
                  /\ waiters' = [waiters EXCEPT ![kind] =
                                    @ \cup {[key |-> key, lead |-> f]}]
    /\ UNCHANGED <<remote, cache, req, res, failures, allowed>>

\* What the cache may hold after the init future of key resolved to
\* Ok(value): the entry is inserted; over max_capacity the cache's policy
\* (Cache::new sets none: moka's default, admission by frequency of use)
\* turns the new entry away or drops an older entry for it. The order of
\* use is not recorded here, so the older entry is any of them.
CacheAfterOk(kind, key, value) ==
    LET inserted == Insert(kind, key, value)
    IN  IF Cardinality(inserted[kind]) <= Capacity(kind) THEN {inserted}
        ELSE {cache}
             \cup { [inserted EXCEPT ![kind] = @ \ {v}] : v \in cache[kind] }

\* CacheAfterErr that leaves an entry for the key behind
CacheAfterErrKept(kind, key) == Insert(kind, key, Upstream(kind, key))

\* what the cache holds after the init future of key resolved to Err
CacheAfterErr(kind, key) == cache

\* The GET of the caller computing the key answers and decodes: the value is
\* inserted (and the cache kept within its capacity), the key leaves the
\* in-flight registry, the callers that joined are released.
FetchOk(f) ==
    /\ f \in DOMAIN fut
    /\ fut[f].st = "lead"
    /\ LET kind == KindOf(f)
           key == fut[f].key
           value == Upstream(kind, key)
       IN  /\ cache' \in CacheAfterOk(kind, key, value)
           /\ waiters' = [waiters EXCEPT ![kind] = { w \in @ : w.lead # f }]
           /\ fut' = [fut EXCEPT ![f].st = "ok", ![f].out = "ok",
                                 ![f].val = Some(value)]
    /\ UNCHANGED <<remote, req, res, failures, allowed>>

\* The state of a caller that got Err(Arc<E>) from try_get_with. The
\* projects call converts the Arc with `?`; the other two calls go through
\* .map_err(|x| Arc::into_inner(x).unwrap()), and hold the Arc until then.
ErrState(kind) == IF kind = "projects_cache" THEN "err" ELSE "held"

\* The GET of the caller computing the key fails (send or json).
FetchErr(f) ==
    /\ f \in DOMAIN fut
    /\ fut[f].st = "lead"
    /\ failures < MaxFail
    /\ failures' = failures + 1
    /\ LET kind == KindOf(f)
           key == fut[f].key
       IN  /\ cache' = CacheAfterErr(kind, key)
           /\ waiters' = [waiters EXCEPT ![kind] = { w \in @ : w.lead # f }]
           /\ fut' = [fut EXCEPT ![f].st = ErrState(kind), ![f].out = "err"]
    /\ UNCHANGED <<remote, req, res, allowed>>

\* what a caller that joined takes from the caller that computed the key
JoinedValue(f) == fut[fut[f].lead].val

\* A caller that joined reads the outcome of the in-flight operation: the
\* value, the shared error, or (the computing caller was dropped) nothing,
\* and then it tries again.
Join(f) ==
    /\ f \in DOMAIN fut
    /\ fut[f].st = "wait"
    /\ LET out == fut[fut[f].lead].out
       IN  /\ out # "computing"
           /\ fut' = CASE out = "ok" ->
                          [fut EXCEPT ![f].st = "ok", ![f].val = JoinedValue(f)]
                       [] out = "err" ->
                          [fut EXCEPT ![f].st = ErrState(KindOf(f))]
                       [] OTHER ->
                          [fut EXCEPT ![f].st = "retry", ![f].lead = NoFut]
    /\ UNCHANGED <<remote, cache, waiters, req, res, failures, allowed>>

\* The strong count of the Arc<E> a caller holds: one per caller of the same
\* in-flight operation that holds its clone, and one for the clone kept in
\* the operation's waiter while a caller that joined has not read it yet.
StrongCount(f) ==
    Cardinality({ h \in DOMAIN fut : fut[h].st = "held" /\ fut[h].lead = fut[f].lead })
    + (IF \E h \in DOMAIN fut : fut[h].st = "wait" /\ fut[h].lead = fut[f].lead
       THEN 1 ELSE 0)

\* Arc::into_inner(x) is Some exactly for the last strong reference
IntoInnerIsSome(f) == StrongCount(f) = 1

\* A panic unwinds the request's task: its futures are dropped; an in-flight
\* operation it was computing is aborted and leaves the registry.
DropFutures(r) ==
    [f \in DOMAIN fut |->
        IF Owner(f) = r /\ ~Settled(f)
        THEN [fut[f] EXCEPT !.st = "dropped",
                            !.out = IF fut[f].st = "lead" THEN "aborted" ELSE @]
        ELSE fut[f]]

\* .map_err(|x| Arc::into_inner(x).unwrap()): the error, or a panic of the
\* request's task when the Arc is still shared
IntoInner(f) ==
    /\ f \in DOMAIN fut
    /\ fut[f].st = "held"
    /\ IF IntoInnerIsSome(f)
       THEN /\ fut' = [fut EXCEPT ![f].st = "err"]
            /\ UNCHANGED <<waiters, req>>
       ELSE /\ fut' = DropFutures(Owner(f))
            /\ waiters' = [k \in Kinds |->
                              { w \in waiters[k] : Owner(w.lead) # Owner(f) }]
            /\ req' = [req EXCEPT ![Owner(f)].pc = "panicked"]
    /\ UNCHANGED <<remote, cache, res, failures, allowed>>

----------------------------------------------------------------------------
(* endpoint, check_list_passing, check_jobset_evaluation. *)

Respond(r, response) ==
    req' = [req EXCEPT ![r].pc = "done", ![r].resp = response]

\* A request arrives: the projects of its base URL are asked of the cache.
\* Requests take the slots in order.
Arrive(r, q) ==
    /\ req[r].pc = "idle"
    /\ \A o \in Reqs : o < r => req[o].pc # "idle"
    /\ q \in allowed
    /\ req' = [req EXCEPT ![r].pc = "projects", ![r].url = q.url,
                          ![r].jobsets = q.jobsets, ![r].jobs = q.jobs]
    /\ fut' = (ProjectsFut(r) :> NewFuture(q.url)) @@ fut
    /\ UNCHANGED <<remote, cache, waiters, res, failures, allowed>>

\* the try_get_with futures of the selected jobsets, in the order of the list
EvalListFutures(r, url, sel) ==
    [f \in { EvalListFut(r, j) : j \in 1..Len(sel) } |->
        NewFuture(<<url, sel[f[3]]>>)]

\* projects_cache.try_get_with(..).await?, then the jobsets are derived and
\* filtered and one future per selected jobset is made.
ProjectsDone(r) ==
    /\ req[r].pc = "projects"
    /\ Settled(ProjectsFut(r))
    /\ IF fut[ProjectsFut(r)].st = "err"
       THEN /\ Respond(r, ErrorResponse)
            /\ UNCHANGED fut
       ELSE LET projects == fut[ProjectsFut(r)].val[1]
                sel == SelectedJobsets(projects, req[r].jobsets)
            IN  /\ req' = [req EXCEPT ![r].pc = "evals",
                                      ![r].projects = projects, ![r].sel = sel]
                /\ fut' = EvalListFutures(r, req[r].url, sel) @@ fut
    /\ UNCHANGED <<remote, cache, waiters, res, failures, allowed>>

\* the try_get_with futures of the builds of one evaluation
BuildFutures(r, j, e, url, evaluation) ==
    [f \in { BuildFut(r, j, e, i) : i \in 1..Len(evaluation) } |->
        NewFuture(<<url, evaluation[f[5]]>>)]

\* check_list_passing entered: `for evaluation in &list.evals`, or Ok(false)
\* at once for an empty list
StartResolver(list) ==
    IF list = <<>>
    THEN [st |-> "ok", ei |-> 0, val |-> FALSE, trail |-> <<>>]
    ELSE [st |-> "run", ei |-> 1, val |-> FALSE, trail |-> <<>>]

\* EvalsDone that drops the lists that failed to load (an empty history in
\* their place) and goes on with the others
EvalsDoneLenient(r) ==
    /\ req[r].pc = "evals"
    /\ \A j \in 1..Len(req[r].sel) : Settled(EvalListFut(r, j))
    /\ LET lists == [j \in 1..Len(req[r].sel) |->
                        IF fut[EvalListFut(r, j)].st = "err" THEN <<>>
                        ELSE fut[EvalListFut(r, j)].val[1]]
           first(j) == IF lists[j] = <<>> THEN <<>>
                       ELSE BuildFutures(r, j, 1, req[r].url, lists[j][1])
           RECURSIVE all(_)
           all(j) == IF j = 0 THEN <<>> ELSE first(j) @@ all(j - 1)
       IN  /\ req' = [req EXCEPT ![r].pc = "resolve", ![r].lists = lists]
           /\ res' = [k \in { <<r, j>> : j \in 1..Len(lists) } |->
                         StartResolver(lists[k[2]])] @@ res
           /\ fut' = all(Len(lists)) @@ fut
    /\ UNCHANGED <<remote, cache, waiters, failures, allowed>>

\* join_all(jobsets).await and collect::<Result<_, _>>()?; then one
\* check_list_passing per list, each asking for its first evaluation's builds.
EvalsDone(r) ==
    /\ req[r].pc = "evals"
    /\ \A j \in 1..Len(req[r].sel) : Settled(EvalListFut(r, j))
    /\ IF \E j \in 1..Len(req[r].sel) : fut[EvalListFut(r, j)].st = "err"
       THEN /\ Respond(r, ErrorResponse)
            /\ UNCHANGED <<fut, res>>
       ELSE LET lists == [j \in 1..Len(req[r].sel) |-> fut[EvalListFut(r, j)].val[1]]
                first(j) == IF lists[j] = <<>> THEN <<>>
                            ELSE BuildFutures(r, j, 1, req[r].url, lists[j][1])
                RECURSIVE all(_)
                all(j) == IF j = 0 THEN <<>> ELSE first(j) @@ all(j - 1)
            IN  /\ req' = [req EXCEPT ![r].pc = "resolve", ![r].lists = lists]
                /\ res' = [k \in { <<r, j>> : j \in 1..Len(lists) } |->
                              StartResolver(lists[k[2]])] @@ res
                /\ fut' = all(Len(lists)) @@ fut
    /\ UNCHANGED <<remote, cache, waiters, failures, allowed>>

\* AfterEvaluation without the `continue`: a queued evaluation decides
AfterEvaluationNoSkip(rs, flags, len) ==
    [rs EXCEPT !.st = "ok", !.val = ~flags[2], !.trail = Append(rs.trail, flags)]

\* AfterEvaluation whose list, when it runs out, returns Ok(true)
AfterEvaluationExhaustedPasses(rs, flags, len) ==
    LET seen == Append(rs.trail, flags)
    IN  IF flags[1]
        THEN IF rs.ei < len
             THEN [rs EXCEPT !.ei = rs.ei + 1, !.trail = seen]
             ELSE [rs EXCEPT !.st = "ok", !.val = TRUE, !.trail = seen]
        ELSE [rs EXCEPT !.st = "ok", !.val = ~flags[2], !.trail = seen]

\* AfterEvaluation with the test of `queued` inverted: it moves on from an
\* evaluation that is not queued
AfterEvaluationInverted(rs, flags, len) ==
    LET seen == Append(rs.trail, flags)
    IN  IF ~flags[1]
        THEN IF rs.ei < len
             THEN [rs EXCEPT !.ei = rs.ei + 1, !.trail = seen]
             ELSE [rs EXCEPT !.st = "ok", !.val = FALSE, !.trail = seen]
        ELSE [rs EXCEPT !.st = "ok", !.val = ~flags[2], !.trail = seen]

\* check_list_passing after check_jobset_evaluation returned (queued,
\* failure) for evaluation e of `len`: continue, or return Ok(!failure); a
\* list that runs out returns Ok(false).
AfterEvaluation(rs, flags, len) ==
    LET seen == Append(rs.trail, flags)
    IN  IF flags[1]
        THEN IF rs.ei < len
             THEN [rs EXCEPT !.ei = rs.ei + 1, !.trail = seen]
             ELSE [rs EXCEPT !.st = "ok", !.val = FALSE, !.trail = seen]
        ELSE [rs EXCEPT !.st = "ok", !.val = ~flags[2], !.trail = seen]

\* join_all(statuses).await of one evaluation is complete: an Err among the
\* builds is returned with `?`, otherwise the flags decide.
EvaluationDone(r, j) ==
    /\ req[r].pc = "resolve"
    /\ <<r, j>> \in DOMAIN res
    /\ res[<<r, j>>].st = "run"
    /\ LET rs == res[<<r, j>>]
           list == req[r].lists[j]
           evaluation == list[rs.ei]
           fs == [i \in 1..Len(evaluation) |-> BuildFut(r, j, rs.ei, i)]
       IN  /\ \A i \in 1..Len(fs) : Settled(fs[i])
           /\ IF \E i \in 1..Len(fs) : fut[fs[i]].st = "err"
              THEN /\ res' = [res EXCEPT ![<<r, j>>].st = "err"]
                   /\ UNCHANGED fut
              ELSE LET statuses == [i \in 1..Len(fs) |-> fut[fs[i]].val[1]]
                       next == AfterEvaluation(rs, EvaluationFlags(req[r].jobs, statuses),
                                               Len(list))
                   IN  /\ res' = [res EXCEPT ![<<r, j>>] = next]
                       /\ fut' = IF next.st = "run"
                                 THEN BuildFutures(r, j, next.ei, req[r].url,
                                                   list[next.ei]) @@ fut
                                 ELSE fut
    /\ UNCHANGED <<remote, cache, waiters, req, failures, allowed>>

\* AllPassing with any() for all()
AnyPassing(r) == \E j \in 1..Len(req[r].lists) : res[<<r, j>>].val

\* AllPassing that wants at least one jobset
AllPassingSome(r) ==
    /\ req[r].lists # <<>>
    /\ \A j \in 1..Len(req[r].lists) : res[<<r, j>>].val

\* jobset_eval_lists.iter().all(|bool| *bool)
AllPassing(r) == \A j \in 1..Len(req[r].lists) : res[<<r, j>>].val

\* join_all(passing).await and collect::<Result<_, _>>()?; then the verdict.
Verdict(r) ==
    /\ req[r].pc = "resolve"
    /\ \A j \in 1..Len(req[r].lists) : res[<<r, j>>].st \in {"ok", "err"}
    /\ IF \E j \in 1..Len(req[r].lists) : res[<<r, j>>].st = "err"
       THEN Respond(r, ErrorResponse)
       ELSE Respond(r, VerdictResponse(req[r].jobsets, req[r].jobs, AllPassing(r)))
    /\ UNCHANGED <<remote, cache, waiters, fut, res, failures, allowed>>

\* the remote moves on: a queued build finishes
BuildFinishes(key) ==
    /\ key \in DOMAIN remote.builds
    /\ remote.builds[key].finished = 0
    /\ remote' = [remote EXCEPT !.builds[key].finished = 1]
    /\ UNCHANGED <<cache, waiters, fut, req, res, failures, allowed>>

----------------------------------------------------------------------------
(* The service: requests arriving concurrently on one AppState. *)

\* main: the three caches are created empty
EmptyCaches == [k \in Kinds |-> {}]

Init ==
    /\ remote = [projects |-> RemoteProjects, evals |-> RemoteEvals,
                 builds |-> RemoteBuilds]
    /\ cache = EmptyCaches
    /\ waiters = [k \in Kinds |-> {}]
    /\ fut = <<>>
    /\ req = [r \in Reqs |-> IdleRequest]
    /\ res = <<>>
    /\ failures = 0
    /\ allowed = RequestQueries

\* One poll of a handler's task runs the handler on from the join that
\* completed and polls the futures it made for the first time (Poll of a new
\* future, and the four handler steps, once every future made is polled);
\* the events of the caches and of the remote happen between such polls
\* (Quiet).
Next ==
    \/ Quiet /\ \E r \in Reqs, q \in allowed : Arrive(r, q)
    \/ \E f \in DOMAIN fut : fut[f].st = "new" /\ Poll(f)
    \/ Quiet /\ \E f \in DOMAIN fut : fut[f].st = "retry" /\ Poll(f)
    \/ Quiet /\ \E f \in DOMAIN fut : FetchOk(f)
    \/ Quiet /\ \E f \in DOMAIN fut : FetchErr(f)
    \/ Quiet /\ \E f \in DOMAIN fut : Join(f)
    \/ Quiet /\ \E f \in DOMAIN fut : IntoInner(f)
    \/ AllPolled /\ \E r \in Reqs : ProjectsDone(r)
    \/ AllPolled /\ \E r \in Reqs : EvalsDone(r)
    \/ AllPolled /\ \E k \in DOMAIN res : EvaluationDone(k[1], k[2])
    \/ AllPolled /\ \E r \in Reqs : Verdict(r)
    \/ Quiet /\ \E key \in DOMAIN remote.builds : BuildFinishes(key)

Spec == Init /\ [][Next]_vars

\* The steps that are bound to happen: the runtime polls a task that can run
\* on, and a GET that was sent is answered or fails. Requests arriving and the
\* remote's builds finishing are not.
Progress ==
    \/ \E f \in DOMAIN fut : fut[f].st = "new" /\ Poll(f)
    \/ Quiet /\ \E f \in DOMAIN fut : fut[f].st = "retry" /\ Poll(f)
    \/ Quiet /\ \E f \in DOMAIN fut : FetchOk(f)
    \/ Quiet /\ \E f \in DOMAIN fut : FetchErr(f)
    \/ Quiet /\ \E f \in DOMAIN fut : Join(f)
    \/ Quiet /\ \E f \in DOMAIN fut : IntoInner(f)
    \/ AllPolled /\ \E r \in Reqs : ProjectsDone(r)
    \/ AllPolled /\ \E r \in Reqs : EvalsDone(r)
    \/ AllPolled /\ \E k \in DOMAIN res : EvaluationDone(k[1], k[2])
    \/ AllPolled /\ \E r \in Reqs : Verdict(r)

SpecFair == Init /\ [][Next]_vars /\ WF_vars(Progress)

----------------------------------------------------------------------------
(* The resolver on drawn evaluation histories: one request, no transport   *)
(* failure, a remote that stands still.                                    *)

\* build ids of the drawn histories: 1 passed, 2 failed, 3 is queued, 4 is
\* of another job, unfinished and failed
DrawnBuilds ==
    (<<"u1", 1>> :> Build(jobB, 1, 0))
    @@ (<<"u1", 2>> :> Build(jobB, 1, 1))
    @@ (<<"u1", 3>> :> Build(jobB, 0, 0))
    @@ (<<"u1", 4>> :> Build(jobD, 0, 1))

DrawnIds == { k[2] : k \in DOMAIN DrawnBuilds }

\* the build lists of at most MaxBuilds ids, ids in ascending order
Evaluations ==
    UNION { { s \in [1..n -> DrawnIds] : \A i \in 1..(n - 1) : s[i] <= s[i + 1] } :
            n \in 0..MaxBuilds }

\* the histories of at most MaxEvals evaluations
Histories == UNION { [1..n -> Evaluations] : n \in 0..MaxEvals }

\* one request, whose jobset glob selects p:t alone
ResolverQuery == Params("u1", <<"p", ":", "t">>, <<"b">>)

\* p:t has the drawn history; p:s has one evaluation whose build passed
InitResolver ==
    /\ \E h \in Histories :
          remote = [projects |-> RemoteProjects,
                    evals |-> (<<"u1", Jobset(jP, jT)>> :> h)
                              @@ (<<"u1", Jobset(jP, jS)>> :> << <<1>> >>),
                    builds |-> DrawnBuilds]
    /\ cache = EmptyCaches
    /\ waiters = [k \in Kinds |-> {}]
    /\ fut = <<>>
    /\ req = [r \in Reqs |-> IdleRequest]
    /\ res = <<>>
    /\ failures = 0
    /\ allowed = {ResolverQuery}

NextResolver ==
    \/ Quiet /\ \E q \in allowed : Arrive(1, q)
    \/ \E f \in DOMAIN fut : fut[f].st = "new" /\ Poll(f)
    \/ Quiet /\ \E f \in DOMAIN fut : FetchOk(f)
    \/ Quiet /\ \E f \in DOMAIN fut : Join(f)
    \/ AllPolled /\ \E r \in Reqs : ProjectsDone(r)
    \/ AllPolled /\ \E r \in Reqs : EvalsDone(r)
    \/ AllPolled /\ \E k \in DOMAIN res : EvaluationDone(k[1], k[2])
    \/ AllPolled /\ \E r \in Reqs : Verdict(r)

SpecResolver == InitResolver /\ [][NextResolver]_vars

----------------------------------------------------------------------------
(* Requests one after the other, with the same parameters, on a remote    *)
(* that stands still and answers; the caches hold any part of what the     *)
(* remote says when the first request arrives.                             *)

\* the entries a cache may hold of a remote that stands still
Entries(answers) == { [key |-> k, value |-> answers[k]] : k \in DOMAIN answers }

InitSequential ==
    /\ remote = [projects |-> RemoteProjects, evals |-> RemoteEvals,
                 builds |-> RemoteBuilds]
    /\ \E ps \in SUBSET Entries(remote.projects),
          es \in SUBSET Entries(remote.evals),
          bs \in SUBSET Entries(remote.builds) :
          cache = [k \in Kinds |->
                      CASE k = "projects_cache" -> ps
                        [] k = "jobset_eval_list_cache" -> es
                        [] k = "build_cache" -> bs]
    /\ waiters = [k \in Kinds |-> {}]
    /\ fut = <<>>
    /\ req = [r \in Reqs |-> IdleRequest]
    /\ res = <<>>
    /\ failures = 0
    /\ allowed = RequestQueries

\* the next request arrives when the one before it has been answered, and
\* carries the parameters of the first
ArriveAfter(r, q) ==
    /\ \A o \in Reqs : o < r => req[o].pc = "done"
    /\ r > 1 => q = Params(req[1].url, req[1].jobsets, req[1].jobs)
    /\ Arrive(r, q)

NextSequential ==
    \/ Quiet /\ \E r \in Reqs, q \in allowed : ArriveAfter(r, q)
    \/ \E f \in DOMAIN fut : fut[f].st = "new" /\ Poll(f)
    \/ Quiet /\ \E f \in DOMAIN fut : FetchOk(f)
    \/ Quiet /\ \E f \in DOMAIN fut : Join(f)
    \/ AllPolled /\ \E r \in Reqs : ProjectsDone(r)
    \/ AllPolled /\ \E r \in Reqs : EvalsDone(r)
    \/ AllPolled /\ \E k \in DOMAIN res : EvaluationDone(k[1], k[2])
    \/ AllPolled /\ \E r \in Reqs : Verdict(r)

SpecSequential == InitSequential /\ [][NextSequential]_vars

----------------------------------------------------------------------------
(* One AppState serving two CI servers: u1 and u2 both have a jobset p:t   *)
(* and a build 1, with different contents.                                 *)

ServerQueries ==
    { Params("u1", <<"p", ":", "*">>, <<"b">>),
      Params("u2", <<"p", ":", "*">>, <<"b">>) }

InitServers ==
    /\ remote = [projects |-> RemoteProjects, evals |-> RemoteEvals,
                 builds |-> RemoteBuilds]
    /\ cache = EmptyCaches
    /\ waiters = [k \in Kinds |-> {}]
    /\ fut = <<>>
    /\ req = [r \in Reqs |-> IdleRequest]
    /\ res = <<>>
    /\ failures = 0
    /\ allowed = ServerQueries

SpecServers == InitServers /\ [][Next]_vars

----------------------------------------------------------------------------
(* One request on an AppState one of whose caches is full: of the projects *)
(* of other servers, of the evaluations of their jobsets, or of other      *)
(* builds of u1.                                                           *)

OtherUrl(i) == "h" \o ToString(i)

FullProjects ==
    { [key |-> OtherUrl(i), value |-> <<>>] : i \in 1..ProjectsCapacity }
FullEvalLists ==
    { [key |-> <<OtherUrl(i), Jobset(jP, jT)>>, value |-> <<>>] :
        i \in 1..EvalListCapacity }
FullBuilds ==
    { [key |-> <<"u1", BuildCapacity + i>>, value |-> Build(jobB, 1, 0)] :
        i \in 1..BuildCapacity }

FullCaches ==
    { [EmptyCaches EXCEPT !["projects_cache"] = FullProjects],
      [EmptyCaches EXCEPT !["jobset_eval_list_cache"] = FullEvalLists],
      [EmptyCaches EXCEPT !["build_cache"] = FullBuilds] }

CapacityQuery == Params("u1", <<"p", ":", "s">>, <<"*">>)

InitCapacity ==
    /\ remote = [projects |-> RemoteProjects, evals |-> RemoteEvals,
                 builds |-> RemoteBuilds]
    /\ cache \in FullCaches
    /\ waiters = [k \in Kinds |-> {}]
    /\ fut = <<>>
    /\ req = [r \in Reqs |-> IdleRequest]
    /\ res = <<>>
    /\ failures = 0
    /\ allowed = {CapacityQuery}

SpecCapacity == InitCapacity /\ [][NextResolver]_vars

----------------------------------------------------------------------------
(* One request for two jobsets, none of whose builds is asked for twice,   *)
(* on a remote that may fail once: no error is shared between two calls.   *)

SiblingQuery == Params("u1", <<"p", ":", "*">>, <<"b">>)

\* p:t has a queued evaluation before an older one, p:s has one evaluation
SiblingEvals ==
    (<<"u1", Jobset(jP, jT)>> :> << <<3>>, <<4>> >>)
    @@ (<<"u1", Jobset(jP, jS)>> :> << <<1>> >>)

InitSiblings ==
    /\ remote = [projects |-> RemoteProjects, evals |-> SiblingEvals,
                 builds |-> RemoteBuilds]
    /\ cache = EmptyCaches
    /\ waiters = [k \in Kinds |-> {}]
    /\ fut = <<>>
    /\ req = [r \in Reqs |-> IdleRequest]
    /\ res = <<>>
    /\ failures = 0
    /\ allowed = {SiblingQuery}

NextSiblings ==
    \/ Quiet /\ \E q \in allowed : Arrive(1, q)
    \/ \E f \in DOMAIN fut : fut[f].st = "new" /\ Poll(f)
    \/ Quiet /\ \E f \in DOMAIN fut : FetchOk(f)
    \/ Quiet /\ \E f \in DOMAIN fut : FetchErr(f)
    \/ Quiet /\ \E f \in DOMAIN fut : IntoInner(f)
    \/ AllPolled /\ \E r \in Reqs : ProjectsDone(r)
    \/ AllPolled /\ \E r \in Reqs : EvalsDone(r)
    \/ AllPolled /\ \E k \in DOMAIN res : EvaluationDone(k[1], k[2])
    \/ AllPolled /\ \E r \in Reqs : Verdict(r)
    \/ Quiet /\ \E key \in DOMAIN remote.builds : BuildFinishes(key)

SpecSiblings == InitSiblings /\ [][NextSiblings]_vars

----------------------------------------------------------------------------
(* Servers with no project, with a project without jobsets, and with the   *)
(* project p of u1; requests whose jobset glob matches p's jobsets or no   *)
(* jobset at all.                                                          *)

DrawnProjects == { <<>>, <<Project(jP, <<>>)>>, RemoteProjects["u1"] }

SparseQueries ==
    { Params("u1", <<"p", ":", "*">>, <<"b">>),
      Params("u1", <<"q", "*">>, <<"b">>) }

InitSparse ==
    /\ \E ps \in DrawnProjects :
          remote = [projects |-> [RemoteProjects EXCEPT !["u1"] = ps],
                    evals |-> RemoteEvals, builds |-> RemoteBuilds]
    /\ cache = EmptyCaches
    /\ waiters = [k \in Kinds |-> {}]
    /\ fut = <<>>
    /\ req = [r \in Reqs |-> IdleRequest]
    /\ res = <<>>
    /\ failures = 0
    /\ allowed = SparseQueries

SpecSparse == InitSparse /\ [][Next]_vars

----------------------------------------------------------------------------
(* Properties of the memoized fetch cache. *)

Futures == DOMAIN fut

\* f and g are calls on the same cache for the same key
SameKey(f, g) == KindOf(f) = KindOf(g) /\ fut[f].key = fut[g].key

\* g joined the in-flight operation of another caller
JoinedTo(g, f) == f # g /\ fut[g].lead = f

\* C1: on each cache at most one upstream fetch is in flight for a key, and
\* a caller that joined an in-flight fetch and got a value got the value that
\* fetch resolved to, without a fetch of its own; callers of different
\* requests and two calls of one request alike.
C1_SingleFlight ==
    /\ \A f, g \in Futures :
          (SameKey(f, g) /\ fut[f].st = "lead" /\ fut[g].st = "lead") => f = g
    /\ \A g \in Futures :
          (fut[g].st = "ok" /\ fut[g].lead \notin {NoFut, g})
          => /\ fut[fut[g].lead].out = "ok"
             /\ fut[g].val = fut[fut[g].lead].val
             /\ ~fut[g].issued

\* one fetch of a build served the caller that made it, a second call of the
\* same request and a call of another request, and the remote has moved on
\* since (a fetch of their own would have answered differently)
C1_Witness ==
    \E f, g, h \in Futures :
        /\ KindOf(f) = "build_cache"
        /\ JoinedTo(g, f) /\ JoinedTo(h, f)
        /\ Owner(g) = Owner(f) /\ Owner(h) # Owner(f)
        /\ fut[f].st = "ok" /\ fut[g].st = "ok" /\ fut[h].st = "ok"

\* C2: when an in-flight fetch fails, every caller that led or joined it ends
\* with the error as a result: none of them is torn down by a panic.
C2_FailureDelivered ==
    \A f \in Futures :
        (fut[f].lead # NoFut /\ fut[fut[f].lead].out = "err")
        => fut[f].st \in {"wait", "held", "err"}

\* every fetch of the key of g made so far has failed, and none is in flight
OnlyFailedSoFar(g) ==
    /\ \E f \in Futures : SameKey(f, g) /\ fut[f].out = "err"
    /\ \A f \in Futures : SameKey(f, g) => fut[f].out \notin {"ok", "computing"}

\* C3: every resident entry is the value of a fetch of its key that
\* succeeded; an error result comes from the in-flight fetch the caller led
\* or joined, never from the cache; and a call for a key whose fetches have
\* failed starts a fetch of its own.
C3_NoFailureCached ==
    /\ [](\A kind \in Kinds : \A e \in cache[kind] :
            \E f \in Futures :
                /\ KindOf(f) = kind /\ fut[f].key = e.key
                /\ fut[f].out = "ok" /\ fut[f].val = Some(e.value))
    /\ [](\A f \in Futures :
            fut[f].st \in {"held", "err"}
            => (fut[f].lead # NoFut /\ fut[fut[f].lead].out = "err" /\ ~fut[f].hit))
    /\ [][\A g \in Futures :
            (fut[g].st \in {"new", "retry"} /\ fut'[g].st \in {"ok", "wait", "lead"}
               /\ OnlyFailedSoFar(g))
            => (fut'[g].st = "lead" /\ fut'[g].issued)]_vars

\* a fetch of a key failed, and a later call for the key led a fetch of its
\* own, which succeeded
C3_Witness ==
    \E f, g \in Futures :
        /\ f # g /\ SameKey(f, g)
        /\ fut[f].out = "err"
        /\ fut[g].lead = g /\ fut[g].issued /\ fut[g].out = "ok"

\* f is polled in this step (its first poll, or its retry)
PolledNow(f) ==
    /\ fut[f].st \in {"new", "retry"}
    /\ fut'[f].st \in {"ok", "wait", "lead"}

\* C4: a call that finds its key resident returns the resident value and
\* issues no upstream fetch.
C4_HitReturnsCached ==
    [][\A f \in Futures :
          (PolledNow(f) /\ Resident(KindOf(f), fut[f].key) # {})
          => /\ fut'[f].st = "ok"
             /\ fut'[f].val = Some(Lookup(KindOf(f), fut[f].key))
             /\ ~fut'[f].issued
             /\ waiters' = waiters]_vars

\* a call was served the resident value of a build that the remote has
\* changed since
C4_Witness ==
    \E f \in Futures :
        /\ KindOf(f) = "build_cache"
        /\ fut[f].hit /\ fut[f].st = "ok" /\ ~fut[f].issued
        /\ fut[f].val # Some(remote.builds[fut[f].key])

----------------------------------------------------------------------------
(* Properties of the evaluation resolver and of the aggregator. *)

Resolvers == DOMAIN res

\* the history resolver k walks, and what the remote says of the builds of
\* one of its evaluations
HistoryOf(k) == req[k[1]].lists[k[2]]
RemoteStatuses(k, e) ==
    [i \in 1..Len(HistoryOf(k)[e]) |->
        remote.builds[<<req[k[1]].url, HistoryOf(k)[e][i]>>]]

\* the builds of evaluation e whose job name matches the job glob
MatchedBuilds(k, e) ==
    { i \in 1..Len(HistoryOf(k)[e]) :
        is_match(req[k[1]].jobs, RemoteStatuses(k, e)[i].job) }

EvalQueued(k, e) == \E i \in MatchedBuilds(k, e) : RemoteStatuses(k, e)[i].finished # 1
EvalFailed(k, e) == \E i \in MatchedBuilds(k, e) : RemoteStatuses(k, e)[i].buildstatus # 0
\* settled: the evaluation has builds of the job, and all of them finished
EvalSettled(k, e) == MatchedBuilds(k, e) # {} /\ ~EvalQueued(k, e)

\* check_jobset_evaluation has returned for evaluation e
Examined(k, e) == e <= Len(res[k].trail)

\* a build of evaluation e was asked of the build cache
BuildsAsked(k, e) ==
    \E f \in Futures :
        /\ KindOf(f) = "build_cache"
        /\ f[1] = k[1] /\ f[3] = k[2] /\ f[4] = e

OlderUntouched(k, e) ==
    \A o \in (e + 1)..Len(HistoryOf(k)) : ~BuildsAsked(k, o) /\ ~Examined(k, o)

\* C5: once the resolver has examined an evaluation none of whose builds
\* (none at all included) is of the job, it has returned Failing and no build
\* of an older evaluation is ever asked for.
C5_NoMatchStops ==
    \A k \in Resolvers : \A e \in 1..Len(HistoryOf(k)) :
        (Examined(k, e) /\ MatchedBuilds(k, e) = {})
        => (res[k].st = "ok" /\ ~res[k].val /\ OlderUntouched(k, e))

\* the first evaluation has only a build of another job, the older one has a
\* build of the job that passed: the request answered failing
C5_Witness ==
    /\ remote.evals[<<"u1", Jobset(jP, jT)>>] = << <<4>>, <<1>> >>
    /\ req[1].pc = "done"
    /\ res[<<1, 1>>].st = "ok" /\ ~res[<<1, 1>>].val
    /\ ~BuildsAsked(<<1, 1>>, 2)
    /\ req[1].resp.message = FailingMessage

\* C6: when the first evaluation is queued and the second one is settled, the
\* resolver returns the verdict of the second: Passing if none of its builds
\* of the job has a nonzero buildstatus, Failing otherwise.
C6_OlderSettledDecides ==
    \A k \in Resolvers :
        (Len(HistoryOf(k)) >= 2 /\ EvalQueued(k, 1) /\ EvalSettled(k, 2)
           /\ res[k].st # "run")
        => (res[k].st = "ok" /\ res[k].val = ~EvalFailed(k, 2))

\* first evaluation queued, second one passed beside an unfinished, failed
\* build of another job: Passing
C6_Witness ==
    /\ remote.evals[<<"u1", Jobset(jP, jT)>>] = << <<3>>, <<1, 4>> >>
    /\ req[1].pc = "done" /\ req[1].resp.message = PassingMessage
    /\ res[<<1, 1>>].st = "ok" /\ res[<<1, 1>>].val
    /\ Examined(<<1, 1>>, 2)

\* every build of the job, in every evaluation, is finished with status 0
AllMatchedPassed(k) ==
    \A e \in 1..Len(HistoryOf(k)) : \A i \in MatchedBuilds(k, e) :
        /\ RemoteStatuses(k, e)[i].finished = 1
        /\ RemoteStatuses(k, e)[i].buildstatus = 0

OnlyFirstExamined(k) ==
    /\ Len(res[k].trail) = 1
    /\ OlderUntouched(k, 1)

\* C7 as stated: whenever every evaluation's builds of the job are finished
\* with status 0, the resolver returns Passing, from the first evaluation only.
C7_AsStated ==
    \A k \in Resolvers :
        (AllMatchedPassed(k) /\ res[k].st # "run")
        => (res[k].st = "ok" /\ res[k].val /\ OnlyFirstExamined(k))

\* C7, amended: the same for a history that is not empty and whose first
\* evaluation has a build of the job.
C7_FirstEvaluationDecides ==
    \A k \in Resolvers :
        (AllMatchedPassed(k) /\ res[k].st # "run"
           /\ HistoryOf(k) # <<>> /\ MatchedBuilds(k, 1) # {})
        => (res[k].st = "ok" /\ res[k].val /\ OnlyFirstExamined(k))

\* two evaluations, the first with a passed build of the job beside a build of
\* another job: Passing, the second evaluation untouched
C7_Witness ==
    /\ remote.evals[<<"u1", Jobset(jP, jT)>>] = << <<1, 4>>, <<1>> >>
    /\ req[1].pc = "done"
    /\ res[<<1, 1>>].st = "ok" /\ res[<<1, 1>>].val
    /\ OnlyFirstExamined(<<1, 1>>)

NoFetchFailed(r) == \A f \in Futures : Owner(f) = r => fut[f].st = "ok"

\* C9: a request none of whose fetches failed answers "passing" without
\* is_error exactly when every selected jobset resolved to Passing, and "one
\* or more jobs failing" with is_error otherwise.
C9_VerdictIsConjunction ==
    \A r \in Reqs :
        (req[r].pc = "done" /\ NoFetchFailed(r))
        => LET every == \A j \in 1..Len(req[r].sel) :
                           res[<<r, j>>].st = "ok" /\ res[<<r, j>>].val
           IN  /\ req[r].resp.status = 200
               /\ req[r].resp.label = req[r].jobsets \o <<":">> \o req[r].jobs
               /\ every => (req[r].resp.message = PassingMessage
                            /\ ~req[r].resp.is_error)
               /\ ~every => (req[r].resp.message = FailingMessage
                             /\ req[r].resp.is_error)

\* two jobsets selected, one Passing and one not: failing
C9_Witness ==
    \E r \in Reqs :
        /\ req[r].pc = "done" /\ NoFetchFailed(r)
        /\ Len(req[r].sel) = 2
        /\ ~res[<<r, 1>>].val /\ res[<<r, 2>>].val
        /\ req[r].resp.message = FailingMessage

\* a build the resolver of request r asked for failed to load
BuildFetchFailed(r) ==
    \E f \in Futures :
        /\ Owner(f) = r /\ KindOf(f) = "build_cache"
        /\ fut[f].lead # NoFut /\ fut[fut[f].lead].out = "err"
        /\ fut[f].st # "wait"

\* C10: a request with a build that failed to load ends in the error response
\* (is_error), never in a verdict, and its handler is not torn down.
C10_BuildFailureIsErrorResponse ==
    \A r \in Reqs :
        BuildFetchFailed(r)
        => /\ req[r].pc # "panicked"
           /\ req[r].pc = "done" => req[r].resp = ErrorResponse

----------------------------------------------------------------------------
(* Properties of the whole request. *)

\* every call of request r was served by the cache / by a fetch of its own
\* or of a call of r it joined
ServedFromCache(r) == \A f \in Futures : Owner(f) = r => fut[f].hit
ServedCold(r) == \A f \in Futures : Owner(f) = r => ~fut[f].hit

\* C11: requests made one after the other with the same parameters, on a
\* remote that stands still, are answered with the same verdict, whatever the
\* caches held before the first of them: a request served from cache hits
\* answers as the same request served by fetches.
C11_SameVerdict ==
    \A r \in Reqs : \A o \in Reqs :
        (req[r].pc = "done" /\ req[o].pc = "done")
        => /\ req[r].resp.status = 200
           /\ req[r].resp = req[o].resp

\* the first request fetched everything, the second was served from the
\* caches alone; two jobsets, the verdict is failing both times
C11_Witness ==
    /\ req[1].pc = "done" /\ req[2].pc = "done"
    /\ ServedCold(1) /\ ServedFromCache(2)
    /\ Len(req[2].sel) = 2
    /\ req[1].resp.message = FailingMessage
    /\ req[2].resp = req[1].resp

\* the key the call f of a request stands for, from the request's own
\* parameters, selected jobsets and evaluation lists
WantedKey(f) ==
    LET r == Owner(f)
    IN  CASE KindOf(f) = "projects_cache" -> req[r].url
          [] KindOf(f) = "jobset_eval_list_cache" -> <<req[r].url, req[r].sel[f[3]]>>
          [] KindOf(f) = "build_cache" -> <<req[r].url, req[r].lists[f[3]][f[4]][f[5]]>>

\* the value v was fetched from the remote under the key
FetchedUnder(kind, key, v) ==
    \E l \in Futures :
        /\ KindOf(l) = kind /\ fut[l].key = key
        /\ fut[l].issued /\ fut[l].out = "ok" /\ fut[l].val = Some(v)

\* C12: every call asks its cache under a key that carries the base URL of
\* its request, and the value it gets was fetched under that very key: from
\* the request's own server, also when another server has the same build id
\* or the same project and jobset.
C12_KeysCarryBaseUrl ==
    \A f \in Futures :
        /\ fut[f].key = WantedKey(f)
        /\ fut[f].st = "ok" => FetchedUnder(KindOf(f), WantedKey(f), fut[f].val[1])

\* requests for u1 and for u2 both asked for build 1 and for the evaluations
\* of p:t, and each got its own server's
C12_Witness ==
    \E f, g \in Futures : \E h, k \in Futures :
        /\ KindOf(f) = "build_cache" /\ KindOf(g) = "build_cache"
        /\ fut[f].key = <<"u1", 1>> /\ fut[g].key = <<"u2", 1>>
        /\ fut[f].st = "ok" /\ fut[g].st = "ok" /\ fut[f].val # fut[g].val
        /\ KindOf(h) = "jobset_eval_list_cache" /\ KindOf(k) = "jobset_eval_list_cache"
        /\ fut[h].key = <<"u1", Jobset(jP, jT)>> /\ fut[k].key = <<"u2", Jobset(jP, jT)>>
        /\ fut[h].st = "ok" /\ fut[k].st = "ok" /\ fut[h].val # fut[k].val
        /\ \A r \in Reqs : req[r].pc = "done"

\* the call f fetched its value in this step
FetchedNow(f) == fut[f].st = "lead" /\ fut'[f].st = "ok"

\* the entries of a cache that left it in this step
Evicted(kind) == cache[kind] \ cache'[kind]

\* C13: no cache ever holds more entries than its capacity; after a fetch
\* that succeeded the fetched key is resident with the fetched value; and
\* when the cache was full, room was made by dropping one entry that was
\* resident before (of which the claim says: the least recently used).
C13_BoundedRetained ==
    /\ [](\A kind \in Kinds : Cardinality(cache[kind]) <= Capacity(kind))
    /\ [][\A f \in Futures :
            FetchedNow(f)
            => LET kind == KindOf(f)
               IN  /\ [key |-> fut[f].key, value |-> fut'[f].val[1]] \in cache'[kind]
                   /\ Cardinality(cache[kind]) = Capacity(kind)
                      => Cardinality(Evicted(kind)) = 1]_vars

\* a fetch made for request r has failed
FetchFailed(r) ==
    \E f \in Futures :
        /\ Owner(f) = r
        /\ fut[f].lead # NoFut /\ fut[fut[f].lead].out = "err"
        /\ fut[f].st # "wait"

\* request r starts an upstream fetch in this step
StartsFetch(r) ==
    \E f \in DOMAIN fut' :
        /\ Owner(f) = r /\ fut'[f].issued
        /\ ~(f \in DOMAIN fut /\ fut[f].issued)

\* C14: once a fetch of a request has failed, the request starts no upstream
\* fetch any more, and when it ends it ends in the error response.
C14_FailFast ==
    /\ [][\A r \in Reqs : FetchFailed(r) => ~StartsFetch(r)]_vars
    /\ [](\A r \in Reqs :
            (FetchFailed(r) /\ req[r].pc = "done") => req[r].resp = ErrorResponse)

\* every build of evaluation e of resolver k has been loaded
BuildsLoaded(k, e) ==
    \A i \in 1..Len(HistoryOf(k)[e]) :
        /\ BuildFut(k[1], k[2], e, i) \in Futures
        /\ fut[BuildFut(k[1], k[2], e, i)].st = "ok"

\* C15: a resolver asks for the builds of an evaluation after the first only
\* when every build of the evaluation before it has been loaded and that
\* evaluation was found queued; it examines the evaluations one by one in the
\* order of the list, from the first.
C15_StrictOrder ==
    \A k \in Resolvers :
        /\ Len(res[k].trail) <= Len(HistoryOf(k))
        /\ res[k].st = "run" => res[k].ei = Len(res[k].trail) + 1
        /\ \A e \in 1..Len(HistoryOf(k)) :
              /\ Examined(k, e) => BuildsAsked(k, e) \/ HistoryOf(k)[e] = <<>>
              /\ (BuildsAsked(k, e) \/ Examined(k, e)) /\ e > 1
                 => /\ Examined(k, e - 1)
                    /\ BuildsLoaded(k, e - 1)
                    /\ res[k].trail[e - 1][1]
                    /\ EvalQueued(k, e - 1)

\* the first evaluation asks for the queued build twice, the second has a
\* failed build: both were examined, in order, and the verdict is failing
C15_Witness ==
    /\ remote.evals[<<"u1", Jobset(jP, jT)>>] = << <<3, 3>>, <<2>> >>
    /\ req[1].pc = "done"
    /\ res[<<1, 1>>].trail = << <<TRUE, FALSE>>, <<FALSE, TRUE>> >>
    /\ BuildsLoaded(<<1, 1>>, 1) /\ BuildsLoaded(<<1, 1>>, 2)
    /\ req[1].resp.message = FailingMessage

\* the first evaluation of the history that is not queued, if there is one
Deciding(k, e) ==
    /\ e \in 1..Len(HistoryOf(k))
    /\ ~EvalQueued(k, e)
    /\ \A o \in 1..(e - 1) : EvalQueued(k, o)

\* C16: the flags found for an evaluation with builds of the job are those of
\* its builds of the job alone; an evaluation with an unfinished build of the
\* job does not decide, whatever the status of its other builds of the job;
\* and the verdict is that of the first evaluation without an unfinished build
\* of the job, read from its builds of the job alone.
C16_MatchedBuildsOnly ==
    \A k \in Resolvers :
        /\ \A e \in 1..Len(res[k].trail) :
              /\ MatchedBuilds(k, e) # {}
                 => res[k].trail[e] = <<EvalQueued(k, e), EvalFailed(k, e)>>
              /\ EvalQueued(k, e)
                 => (res[k].st = "run" \/ Len(res[k].trail) > e
                     \/ (e = Len(HistoryOf(k)) /\ ~res[k].val))
        /\ res[k].st # "run"
           => /\ res[k].st = "ok"
              /\ res[k].val = \E e \in 1..Len(HistoryOf(k)) :
                                  /\ Deciding(k, e)
                                  /\ MatchedBuilds(k, e) # {}
                                  /\ ~EvalFailed(k, e)

\* the first evaluation has a failed build of the job beside an unfinished
\* one and is passed over; the second has a passed build of the job beside an
\* unfinished, failed build of another job: Passing
C16_Witness ==
    /\ remote.evals[<<"u1", Jobset(jP, jT)>>] = << <<2, 3>>, <<1, 4>> >>
    /\ req[1].pc = "done"
    /\ res[<<1, 1>>].trail = << <<TRUE, TRUE>>, <<FALSE, FALSE>> >>
    /\ res[<<1, 1>>].st = "ok" /\ res[<<1, 1>>].val
    /\ req[1].resp.message = PassingMessage /\ ~req[1].resp.is_error

\* the calls of request r on one cache
CallsOf(r, kind) == { f \in Futures : Owner(f) = r /\ KindOf(f) = kind }

\* the (project, jobset) pairs of the projects request r was given whose
\* "project:jobset" string matches the jobset glob of r
MatchingPairs(r) ==
    LET projects == fut[ProjectsFut(r)].val[1]
        id(i, n) == projects[i].name \o <<":">> \o projects[i].jobsets[n]
    IN  UNION { { Jobset(projects[i].name, projects[i].jobsets[n]) :
                    n \in { m \in 1..Len(projects[i].jobsets) :
                               is_match(req[r].jobsets, id(i, m)) } } :
                i \in 1..Len(projects) }

\* C17: a request that was given the projects asks for the evaluations of
\* exactly the (project, jobset) pairs that match its jobset glob; every build
\* it asks for is a build of an evaluation of such a pair; and its verdict is
\* read from the resolvers of those pairs alone.
C17_OnlySelectedJobsets ==
    \A r \in Reqs :
        /\ req[r].pc \in {"idle", "projects"}
           => CallsOf(r, "jobset_eval_list_cache") = {}
        /\ (req[r].pc \notin {"idle", "projects"} /\ fut[ProjectsFut(r)].st = "ok")
           => /\ { fut[f].key : f \in CallsOf(r, "jobset_eval_list_cache") }
                 = { <<req[r].url, x>> : x \in MatchingPairs(r) }
              /\ Cardinality(CallsOf(r, "jobset_eval_list_cache"))
                 = Cardinality(MatchingPairs(r))
              /\ \A f \in CallsOf(r, "build_cache") :
                    \E x \in MatchingPairs(r) :
                        /\ req[r].sel[f[3]] = x
                        /\ fut[f].key = <<req[r].url,
                                          remote.evals[<<req[r].url, x>>][f[4]][f[5]]>>
              /\ { k \in Resolvers : k[1] = r } # {}
                 => { req[r].sel[k[2]] : k \in { x \in Resolvers : x[1] = r } }
                    = MatchingPairs(r)
              /\ (req[r].pc = "done" /\ req[r].resp.status = 200)
                 => (req[r].resp.message = PassingMessage
                     <=> \A k \in Resolvers : k[1] = r => res[k].val)

\* a request for p:s was answered passing: it asked for the evaluations of
\* p:s and for no other, and for no build of p:t, which alone would fail
C17_Witness ==
    \E r \in Reqs :
        /\ req[r].pc = "done" /\ req[r].resp.message = PassingMessage
        /\ Len(req[r].projects[1].jobsets) = 2
        /\ { fut[f].key : f \in CallsOf(r, "jobset_eval_list_cache") }
           = { <<"u1", Jobset(jP, jS)>> }
        /\ \A f \in CallsOf(r, "build_cache") : fut[f].key = <<"u1", 1>>
        /\ CallsOf(r, "build_cache") # {}

\* C18: a request that was given the projects, none of whose jobsets matches
\* its jobset glob (no project, or no jobset, among the cases), asks for no
\* evaluation list and for no build, and answers "passing" without is_error.
C18_NoMatchPasses ==
    \A r \in Reqs :
        (req[r].pc \notin {"idle", "projects"} /\ fut[ProjectsFut(r)].st = "ok"
           /\ MatchingPairs(r) = {})
        => /\ CallsOf(r, "jobset_eval_list_cache") = {}
           /\ CallsOf(r, "build_cache") = {}
           /\ { f \in Futures : Owner(f) = r /\ fut[f].issued } \subseteq {ProjectsFut(r)}
           /\ req[r].pc = "done"
              => req[r].resp = [status |-> 200,
                                label |-> req[r].jobsets \o <<":">> \o req[r].jobs,
                                message |-> PassingMessage, is_error |-> FALSE]

\* a request on a server without projects was answered passing
EmptyProjectListPasses ==
    \E r \in Reqs :
        /\ req[r].pc = "done" /\ req[r].resp.message = PassingMessage
        /\ fut[ProjectsFut(r)].val = Some(<<>>)
        /\ ~req[r].resp.is_error

\* a request for p:* on a server whose project p has no jobset was answered
\* passing, having fetched the projects and nothing else
C18_Witness ==
    \E r \in Reqs :
        /\ req[r].pc = "done" /\ req[r].resp.message = PassingMessage
        /\ req[r].jobsets = <<"p", ":", "*">>
        /\ fut[ProjectsFut(r)].val = Some(<<Project(jP, <<>>)>>)
        /\ fut[ProjectsFut(r)].issued
        /\ ~req[r].resp.is_error

\* the call f ended in an error
CallFailed(f) == fut[f].lead # NoFut /\ fut[fut[f].lead].out = "err" /\ fut[f].st # "wait"

\* C19: a request makes its evaluation-list calls only once its projects
\* call has returned a value, and its build calls only once every one of its
\* evaluation-list calls has; a request whose projects call or one of whose
\* evaluation-list calls failed makes no build call.
C19_PhaseBarriers ==
    \A r \in Reqs :
        /\ CallsOf(r, "jobset_eval_list_cache") # {}
           => /\ fut[ProjectsFut(r)].st = "ok"
              /\ CallsOf(r, "jobset_eval_list_cache")
                 = { EvalListFut(r, j) : j \in 1..Len(req[r].sel) }
        /\ CallsOf(r, "build_cache") # {}
           => /\ fut[ProjectsFut(r)].st = "ok"
              /\ \A j \in 1..Len(req[r].sel) :
                    /\ EvalListFut(r, j) \in Futures
                    /\ fut[EvalListFut(r, j)].st = "ok"
        /\ (\E f \in CallsOf(r, "projects_cache") \cup CallsOf(r, "jobset_eval_list_cache") :
               CallFailed(f))
           => CallsOf(r, "build_cache") = {}

\* of the two evaluation lists of a request one loaded and one failed: the
\* request answered the error and asked for no build
C19_Witness ==
    \E r \in Reqs :
        /\ req[r].pc = "done" /\ req[r].resp = ErrorResponse
        /\ Len(req[r].sel) = 2
        /\ \E f, g \in CallsOf(r, "jobset_eval_list_cache") :
              fut[f].st = "err" /\ fut[g].st = "ok"
        /\ CallsOf(r, "build_cache") = {}

\* C20: every request that arrived is answered in the end; an answer, once
\* given, stands (one response per request); and a resolver examines the
\* evaluations of its history one at a time and none twice.
C20_EveryRequestAnswered ==
    /\ \A r \in Reqs : (req[r].pc # "idle") ~> (req[r].pc = "done")
    /\ [][\A r \in Reqs : req[r].pc = "done" => req'[r] = req[r]]_vars
    /\ [](\A k \in Resolvers : Len(res[k].trail) <= Len(HistoryOf(k)))
    /\ [][\A k \in Resolvers :
            \/ res'[k].trail = res[k].trail
            \/ /\ Len(res'[k].trail) = Len(res[k].trail) + 1
               /\ res[k].st = "run" /\ res[k].ei = Len(res'[k].trail)]_vars

====
